---- MODULE Spec2Model ----
(***************************************************************************)
(* A model of cleosim's LatencyIOProcessor (cleosim/processing/base.py):   *)
(* the sampling decision, the ingestion of a sample and the delivery of    *)
(* the delayed control signal.                                             *)
(*                                                                         *)
(* Time is fixed point: one unit is 1e-8 ms, the default absolute          *)
(* tolerance of numpy.isclose, so that the tolerant comparison of "fixed"  *)
(* sampling and the exact comparison of "when idle" sampling differ in the *)
(* model as they do in the code.                                           *)
(***************************************************************************)
EXTENDS Integers, Sequences, FiniteSets, Bags

\* ------------------------------------------------------------------ bounds
\* Query and sample times are drawn from 0..MaxTime.
MaxTime == 4
\* A computation's delay is drawn from 0..MaxDelay.
MaxDelay == 3
\* The number of put_state calls of one run.
MaxPuts == 3

\* numpy.isclose's default atol (1e-8), in time units.
Atol == 1

Times == 0 .. MaxTime
Delays == 0 .. MaxDelay
\* The sample periods a scheduler is constructed with.
Periods == {2, 3}

VARIABLES
    out_buffer,                 \* deque of (out, out_time_ms), head first
    sample_period_ms,           \* self.sample_period_ms
    sampling,                   \* self.sampling
    processing,                 \* self.processing
    needs_off_schedule_sample,  \* self._needs_off_schedule_sample:
                                \* "unset" until first assigned
    last,                       \* the last call: its name, arguments, result
    nput,                       \* number of put_state calls so far
    delivered,                  \* outputs get_ctrl_signal returned, in order
    pc,                         \* the driver loop's position
    now,                        \* the driver loop's query time t[i]
    deferred,                   \* the driver saw a scheduled sample refused
                                \* and has put no sample since
    status,                     \* how LatencyIOProcessor.__init__ ended
    kwargs,                     \* the arguments __init__ was called with
    block,                      \* a ProcessingBlock: its attributes
    calls,                      \* the block's process calls, in order
    registry,                   \* a LightOpsinRegistry: its attributes
    registered,                 \* the register_* calls made so far
    electrodes,                 \* ElectrodeGroup.signals and each Signal's
                                \* electrode_group
    added                       \* per ElectrodeGroup, the signals added to it

vars == <<out_buffer, sample_period_ms, sampling, processing,
          needs_off_schedule_sample, last, nput, delivered, pc, now,
          deferred, status, kwargs, block, calls, registry, registered,
          electrodes, added>>

config == <<sample_period_ms, sampling, processing>>
driver == <<pc, now, deferred>>
ctor == <<status, kwargs>>
blocks == <<block, calls>>
devices == <<registry, registered, electrodes, added>>

\* The neuron groups, opsins, lights, electrode groups and signals of an
\* experiment.
NeuronGroups == {"ng1", "ng2"}
Opsins == {"opsin1", "opsin2"}
Lights == {"light1", "light2"}
ElectrodeGroups == {"eg1", "eg2"}
Signals == {"sig1", "sig2", "sig3"}

\* An empty dict.
empty_map == [x \in {} |-> {}]

\* LightOpsinRegistry(sim), lines 18-24: three empty dicts, light_prop_syns
\* as the set of its keys; network is sim.network, the bag of the synapses
\* added to it.
new_registry ==
    [opsins_for_ng |-> empty_map, lights_for_ng |-> empty_map,
     light_prop_syns |-> {}, network |-> EmptyBag]

\* ElectrodeGroup.signals (line 45) and Signal.electrode_group (line 19)
\* as the class bodies set them.
new_electrodes ==
    [signals |-> <<>>, electrode_group |-> [s \in Signals |-> "None"]]

InitDevices ==
    /\ registry = new_registry
    /\ registered = {}
    /\ electrodes = new_electrodes
    /\ added = [eg \in ElectrodeGroups |-> <<>>]

\* A ProcessingBlock before its __init__ has run.
new_block ==
    [status |-> "new", delay |-> "None", const |-> 0,
     save_history |-> FALSE,
     has_history |-> FALSE, t |-> <<>>, out_t |-> <<>>, values |-> <<>>]

\* ------------------------------------------------------------ construction
\* LatencyIOProcessor.__init__ with valid keyword arguments: an empty
\* buffer; _needs_off_schedule_sample is not assigned.
Init ==
    /\ out_buffer = <<>>
    /\ sample_period_ms \in Periods
    /\ sampling \in {"fixed", "when idle"}
    /\ processing \in {"parallel", "serial"}
    /\ needs_off_schedule_sample = "unset"
    /\ last = [op |-> "__init__", t |-> 0, d |-> 0, ret |-> "None", out |-> 0]
    /\ nput = 0
    /\ delivered = <<>>
    /\ pc = "query"
    /\ now = -1
    /\ deferred = FALSE
    /\ status = "constructed"
    /\ kwargs = [sample_period_ms |-> sample_period_ms,
                 sampling |-> sampling, processing |-> processing]
    /\ block = new_block
    /\ calls = <<>>
    /\ InitDevices

\* ------------------------------------------------------------------ helpers
Abs(x) == IF x < 0 THEN 0 - x ELSE x

\* Python's a % b for b # 0: the result has the sign of b.
py_mod(a, b) == IF b > 0 THEN a % b ELSE 0 - ((0 - a) % (0 - b))

\* numpy.isclose(a, b): |a - b| <= atol + rtol * |b|.  Its only call has
\* b = 0, where the relative term vanishes.
isclose(a, b) == Abs(a - b) <= Atol

\* ProcessingBlock.process / LatencyIOProcessor.process: the output time is
\* the input time plus the delay d drawn for this call.
process(out, in_time_ms, d) ==
    [out |-> out, out_time_ms |-> in_time_ms + d]

\* Variants of effective_out_time: the processing policy ignored either
\* way, and the head taken for the previous entry.
serial_out_time(buf, out_time_ms, sample_time_ms) ==
    IF Len(buf) > 0
    THEN buf[Len(buf)].out_time_ms + out_time_ms - sample_time_ms
    ELSE out_time_ms

parallel_out_time(buf, out_time_ms, sample_time_ms) == out_time_ms

out_time_after_head(buf, out_time_ms, sample_time_ms) ==
    IF processing = "serial" /\ Len(buf) > 0
    THEN buf[1].out_time_ms + out_time_ms - sample_time_ms
    ELSE out_time_ms

\* put_state, lines 172-175: the effective output time.
effective_out_time(buf, out_time_ms, sample_time_ms) ==
    IF processing = "serial" /\ Len(buf) > 0
    THEN buf[Len(buf)].out_time_ms + out_time_ms - sample_time_ms
    ELSE out_time_ms

\* ---------------------------------------------------------------- put_state
\* Variant of flag_after_put_state: put_state leaves the flag alone.
flag_kept_by_put_state == needs_off_schedule_sample

\* line 177: self._needs_off_schedule_sample = False
flag_after_put_state == "False"

\* Variant of put_state: the entry is inserted by output time.
put_state_sorted(sample_time_ms, d) ==
    LET r == process(nput + 1, sample_time_ms, d)
        t == effective_out_time(out_buffer, r.out_time_ms, sample_time_ms)
        before == SelectSeq(out_buffer, LAMBDA x : x.out_time_ms <= t)
        after == SelectSeq(out_buffer, LAMBDA x : x.out_time_ms > t)
    IN  /\ out_buffer' = before \o <<[out |-> r.out, out_time_ms |-> t]>>
                             \o after
        /\ needs_off_schedule_sample' = flag_after_put_state
        /\ nput' = nput + 1
        /\ last' = [op |-> "put_state", t |-> sample_time_ms, d |-> d,
                    ret |-> "None", out |-> 0]
        /\ UNCHANGED <<config, delivered>>

put_state(sample_time_ms, d) ==
    LET r == process(nput + 1, sample_time_ms, d)
        t == effective_out_time(out_buffer, r.out_time_ms, sample_time_ms)
    IN  /\ out_buffer' = Append(out_buffer, [out |-> r.out, out_time_ms |-> t])
        /\ needs_off_schedule_sample' = flag_after_put_state
        /\ nput' = nput + 1
        /\ last' = [op |-> "put_state", t |-> sample_time_ms, d |-> d,
                    ret |-> "None", out |-> 0]
        /\ UNCHANGED <<config, delivered>>

\* ---------------------------------------------------------- get_ctrl_signal
\* Variants of head_is_due: the comparison reversed, and strict.
head_is_due_reversed(buf, query_time_ms) ==
    query_time_ms <= buf[1].out_time_ms

head_is_overdue(buf, query_time_ms) == query_time_ms > buf[1].out_time_ms

\* Variant of head_is_due: any buffered entry that is due counts.
any_is_due(buf, query_time_ms) ==
    \E k \in DOMAIN buf : query_time_ms >= buf[k].out_time_ms

\* line 183: the head is due.
head_is_due(buf, query_time_ms) == query_time_ms >= buf[1].out_time_ms

\* lines 180-187: whether the call releases an entry.
releases(buf, query_time_ms) ==
    Len(buf) # 0 /\ head_is_due(buf, query_time_ms)

\* Variants of popleft: pop() from the tail, and clear().
pop(buf) == SubSeq(buf, 1, Len(buf) - 1)

clear(buf) == <<>>

\* Variant of popleft: the head is read and left in the buffer.
peek(buf) == buf

\* line 184: popleft.
popleft(buf) == Tail(buf)

\* Variant of get_ctrl_signal: the due entry with the earliest output time
\* is released, wherever it is in the buffer.
get_ctrl_signal_earliest_due(query_time_ms) ==
    LET due == {k \in DOMAIN out_buffer :
                   out_buffer[k].out_time_ms <= query_time_ms}
        first == CHOOSE k \in due :
                    \A j \in due : \/ out_buffer[k].out_time_ms
                                         < out_buffer[j].out_time_ms
                                    \/ /\ out_buffer[k].out_time_ms
                                             = out_buffer[j].out_time_ms
                                       /\ k <= j
    IN  /\ IF due # {}
           THEN /\ out_buffer' = SubSeq(out_buffer, 1, first - 1)
                                    \o SubSeq(out_buffer, first + 1,
                                              Len(out_buffer))
                /\ delivered' = Append(delivered, out_buffer[first].out)
                /\ last' = [op |-> "get_ctrl_signal", t |-> query_time_ms,
                            d |-> 0, ret |-> "signal",
                            out |-> out_buffer[first].out]
           ELSE /\ UNCHANGED <<out_buffer, delivered>>
                /\ last' = [op |-> "get_ctrl_signal", t |-> query_time_ms,
                            d |-> 0, ret |-> "None", out |-> 0]
        /\ UNCHANGED <<config, needs_off_schedule_sample, nput>>

get_ctrl_signal(query_time_ms) ==
    /\ IF releases(out_buffer, query_time_ms)
       THEN /\ out_buffer' = popleft(out_buffer)
            /\ delivered' = Append(delivered, out_buffer[1].out)
            /\ last' = [op |-> "get_ctrl_signal", t |-> query_time_ms, d |-> 0,
                        ret |-> "signal", out |-> out_buffer[1].out]
       ELSE /\ UNCHANGED <<out_buffer, delivered>>
            /\ last' = [op |-> "get_ctrl_signal", t |-> query_time_ms, d |-> 0,
                        ret |-> "None", out |-> 0]
    /\ UNCHANGED <<config, needs_off_schedule_sample, nput>>

\* ---------------------------------------------------------- is_sampling_now
\* Variant of _is_currently_idle: only an empty buffer counts as idle.
is_empty(buf, query_time_ms) == Len(buf) = 0

\* Variant of _is_currently_idle: the buffer is not looked at.
always_idle(buf, query_time_ms) == TRUE

\* line 190: _is_currently_idle.
is_currently_idle(buf, query_time_ms) ==
    Len(buf) = 0 \/ buf[1].out_time_ms <= query_time_ms

\* Variant of on_schedule_fixed: the exact comparison of line 197.
on_schedule_exact(query_time_ms) ==
    py_mod(query_time_ms, sample_period_ms) = 0

\* line 194 and line 197: the query time is on schedule.
on_schedule_fixed(query_time_ms) ==
    isclose(py_mod(query_time_ms, sample_period_ms), 0)

on_schedule_when_idle(query_time_ms) ==
    py_mod(query_time_ms, sample_period_ms) = 0

\* The value is_sampling_now returns; reading the attribute before any
\* assignment raises AttributeError, and % by a period of 0 raises
\* ZeroDivisionError.
is_sampling_now_result(buf, flag, query_time_ms) ==
    IF sample_period_ms = 0 THEN "ZeroDivisionError"
    ELSE IF sampling = "fixed"
    THEN IF on_schedule_fixed(query_time_ms) THEN "True" ELSE "False"
    ELSE IF on_schedule_when_idle(query_time_ms)
         THEN IF is_currently_idle(buf, query_time_ms) THEN "True" ELSE "False"
         ELSE IF flag = "unset" THEN "AttributeError"
              ELSE IF flag = "True" /\ is_currently_idle(buf, query_time_ms)
                   THEN "True" ELSE "False"

\* Variant of is_sampling_now_flag: an off-schedule query answered true
\* consumes the flag.
is_sampling_now_flag_consumed(buf, flag, query_time_ms) ==
    IF sample_period_ms = 0 THEN flag
    ELSE IF sampling = "when idle" /\ on_schedule_when_idle(query_time_ms)
    THEN IF is_currently_idle(buf, query_time_ms) THEN "False" ELSE "True"
    ELSE IF /\ sampling = "when idle"
            /\ flag = "True"
            /\ is_currently_idle(buf, query_time_ms)
         THEN "False" ELSE flag

\* The value of _needs_off_schedule_sample after is_sampling_now.
is_sampling_now_flag(buf, flag, query_time_ms) ==
    IF sample_period_ms = 0 THEN flag
    ELSE IF sampling = "when idle" /\ on_schedule_when_idle(query_time_ms)
    THEN IF is_currently_idle(buf, query_time_ms) THEN "False" ELSE "True"
    ELSE flag

is_sampling_now(query_time_ms) ==
    /\ last' = [op |-> "is_sampling_now", t |-> query_time_ms, d |-> 0,
                ret |-> is_sampling_now_result(out_buffer,
                            needs_off_schedule_sample, query_time_ms),
                out |-> 0]
    /\ needs_off_schedule_sample' =
           is_sampling_now_flag(out_buffer, needs_off_schedule_sample,
                                query_time_ms)
    /\ UNCHANGED <<config, out_buffer, nput, delivered>>

\* ------------------------------------------------- any sequence of calls
PutState ==
    /\ nput < MaxPuts
    /\ \E s \in Times, d \in Delays : put_state(s, d)
    /\ UNCHANGED <<driver, ctor, blocks, devices>>

GetCtrlSignal ==
    /\ \E t \in Times : get_ctrl_signal(t)
    /\ UNCHANGED <<driver, ctor, blocks, devices>>

IsSamplingNow ==
    /\ \E t \in Times : is_sampling_now(t)
    /\ UNCHANGED <<driver, ctor, blocks, devices>>

Next == PutState \/ GetCtrlSignal \/ IsSamplingNow

Spec == Init /\ [][Next]_vars

\* ------------------------------------------------------- the driver loop
\* The loop of _test_DelayControlLoop over advancing query times t[i]:
\* is_sampling_now(t) (asserted), is_sampling_now(t) again (tested), then
\* put_state(state, t) if it returned true, then get_ctrl_signal(t).  An
\* exception ends the loop.
after_sampling_query(ret, if_true, if_false) ==
    IF ret \in {"AttributeError", "ZeroDivisionError"} THEN "raised"
    ELSE IF ret = "True" THEN if_true ELSE if_false

\* The driver's view: a query on schedule that is answered false is a
\* scheduled sample deferred.
sees_deferral(ret, query_time_ms) ==
    ret = "False" /\ py_mod(query_time_ms, sample_period_ms) = 0

DriverAssertSampling ==
    /\ pc = "query"
    /\ \E t \in (now + 1) .. MaxTime :
          /\ now' = t
          /\ is_sampling_now(t)
    /\ pc' = after_sampling_query(last'.ret, "if", "if")
    /\ deferred' = (deferred \/ sees_deferral(last'.ret, now'))
    /\ UNCHANGED <<ctor, blocks, devices>>

DriverIfSampling ==
    /\ pc = "if"
    /\ is_sampling_now(now)
    /\ pc' = after_sampling_query(last'.ret, "put", "get")
    /\ deferred' = (deferred \/ sees_deferral(last'.ret, now))
    /\ now' = now
    /\ UNCHANGED <<ctor, blocks, devices>>

DriverPutState ==
    /\ pc = "put"
    /\ \E d \in Delays : put_state(now, d)
    /\ pc' = "get"
    /\ deferred' = FALSE
    /\ now' = now
    /\ UNCHANGED <<ctor, blocks, devices>>

DriverGetCtrlSignal ==
    /\ pc = "get"
    /\ get_ctrl_signal(now)
    /\ pc' = "query"
    /\ UNCHANGED <<now, deferred, ctor, blocks, devices>>

NextDriver ==
    \/ DriverAssertSampling
    \/ DriverIfSampling
    \/ DriverPutState
    \/ DriverGetCtrlSignal

SpecDriver == Init /\ [][NextDriver]_vars

\* ---------------------------------------------------------------- claims
\* C1: get_ctrl_signal(t) returns a value only if the buffer is non-empty
\* before the call and t >= the head's output time, and the value it returns
\* is never one whose buffered output time exceeds t.
C1_ReleaseOnlyWhenDue ==
    [][(last'.op = "get_ctrl_signal" /\ last'.ret = "signal") =>
          /\ Len(out_buffer) > 0
          /\ last'.t >= out_buffer[1].out_time_ms
          /\ \E i \in DOMAIN out_buffer :
                /\ out_buffer[i].out = last'.out
                /\ out_buffer[i].out_time_ms <= last'.t]_vars

C1_Witness ==
    /\ last.op = "get_ctrl_signal"
    /\ last.ret = "signal"
    /\ Len(out_buffer) > 0

\* C2: under both processing policies outputs are returned in the order in
\* which their inputs were passed to put_state (outputs are numbered in
\* put_state order): the returned outputs are in increasing order, and no
\* entry still buffered was ingested before a returned one.
C2_FifoRelease ==
    /\ \A i, j \in DOMAIN delivered : i < j => delivered[i] < delivered[j]
    /\ \A i \in DOMAIN delivered, k \in DOMAIN out_buffer :
           delivered[i] < out_buffer[k].out

C2_Witness ==
    /\ processing = "parallel"
    /\ Len(delivered) >= 2
    /\ Len(out_buffer) >= 1

\* C3 as stated: under "fixed" sampling is_sampling_now(t) returns true iff
\* t mod period = 0.
C3_Original ==
    (sampling = "fixed" /\ last.op = "is_sampling_now") =>
        (last.ret = "True" <=> last.t % sample_period_ms = 0)

\* C3 as amended: under "fixed" sampling is_sampling_now(t) returns true iff
\* t mod period is within the absolute tolerance of 0, whatever the buffer
\* and the missed-sample flag hold, and it changes neither.
C3_FixedWithinTolerance ==
    [][(sampling = "fixed" /\ last'.op = "is_sampling_now") =>
          /\ last'.ret = "True" <=> last'.t % sample_period_ms <= Atol
          /\ last'.ret \in {"True", "False"}
          /\ out_buffer' = out_buffer
          /\ needs_off_schedule_sample' = needs_off_schedule_sample]_vars

C3_Witness ==
    /\ sampling = "fixed"
    /\ last.op = "is_sampling_now"
    /\ last.ret = "True"
    /\ Len(out_buffer) > 0
    /\ out_buffer[1].out_time_ms > last.t

\* C4: under "when idle" sampling, at a query time that is a multiple of the
\* period, is_sampling_now returns true iff the buffer is empty or the
\* head's output time is <= t; when busy it returns false and sets the
\* missed-sample flag, when idle the flag is clear afterwards.
C4_OnScheduleWhenIdle ==
    [][(/\ sampling = "when idle"
        /\ last'.op = "is_sampling_now"
        /\ last'.t % sample_period_ms = 0) =>
          IF Len(out_buffer) = 0 \/ out_buffer[1].out_time_ms <= last'.t
          THEN last'.ret = "True" /\ needs_off_schedule_sample' = "False"
          ELSE last'.ret = "False" /\ needs_off_schedule_sample' = "True"]_vars

C4_Witness ==
    /\ sampling = "when idle"
    /\ last.op = "is_sampling_now"
    /\ last.t % sample_period_ms = 0
    /\ last.ret = "False"
    /\ needs_off_schedule_sample = "True"

\* C5: under "when idle" sampling, at a query time that is not a multiple of
\* the period, is_sampling_now returns true only if the missed-sample flag
\* is set and the scheduler is idle, and returns false in every other state,
\* a freshly constructed scheduler included.
C5_OffScheduleWhenIdle ==
    [][(/\ sampling = "when idle"
        /\ last'.op = "is_sampling_now"
        /\ last'.t % sample_period_ms # 0) =>
          IF /\ needs_off_schedule_sample = "True"
             /\ (Len(out_buffer) = 0 \/ out_buffer[1].out_time_ms <= last'.t)
          THEN last'.ret = "True"
          ELSE last'.ret = "False"]_vars

\* C7: under "parallel" processing the entry put_state(state, s) appends
\* with delay d has output time s + d, whatever the buffer holds.
C7_ParallelOutTime ==
    (processing = "parallel" /\ last.op = "put_state") =>
        /\ Len(out_buffer) > 0
        /\ out_buffer[Len(out_buffer)].out_time_ms = last.t + last.d

C7_Witness ==
    /\ processing = "parallel"
    /\ last.op = "put_state"
    /\ Len(out_buffer) >= 2
    /\ out_buffer[Len(out_buffer)].out_time_ms
           < out_buffer[Len(out_buffer) - 1].out_time_ms

\* C8: under "serial" processing put_state(state, s) with delay d appends an
\* entry whose output time is the previous tail's output time + d when the
\* buffer was non-empty, and s + d when it was empty.
C8_SerialOutTime ==
    (processing = "serial" /\ last.op = "put_state") =>
        LET n == Len(out_buffer) IN
        /\ n > 0
        /\ out_buffer[n].out_time_ms =
               IF n > 1 THEN out_buffer[n - 1].out_time_ms + last.d
                        ELSE last.t + last.d

C8_Witness ==
    /\ processing = "serial"
    /\ last.op = "put_state"
    /\ Len(out_buffer) >= 2
    /\ out_buffer[Len(out_buffer) - 1].out_time_ms # last.t
    /\ last.d > 0

\* C9: under "serial" processing (delays are >= 0) the output times of the
\* buffered entries are non-decreasing from head to tail.
C9_SerialMonotone ==
    processing = "serial" =>
        \A i, j \in DOMAIN out_buffer :
            i < j => out_buffer[i].out_time_ms <= out_buffer[j].out_time_ms

C9_Witness ==
    /\ processing = "serial"
    /\ Len(out_buffer) >= 3
    /\ last.op = "put_state"
    /\ last.t + last.d < out_buffer[1].out_time_ms

\* C10: get_ctrl_signal(t) on an empty buffer or on a head with output time
\* > t returns none and leaves the buffer and the missed-sample flag
\* unchanged; when the head is due it removes exactly the head, returns its
\* output and leaves the remaining entries and their order unchanged.
C10_GetCtrlSignalFrame ==
    [][last'.op = "get_ctrl_signal" =>
          /\ needs_off_schedule_sample' = needs_off_schedule_sample
          /\ IF Len(out_buffer) = 0 \/ out_buffer[1].out_time_ms > last'.t
             THEN last'.ret = "None" /\ out_buffer' = out_buffer
             ELSE /\ last'.ret = "signal"
                  /\ last'.out = out_buffer[1].out
                  /\ Len(out_buffer') = Len(out_buffer) - 1
                  /\ \A i \in DOMAIN out_buffer' :
                         out_buffer'[i] = out_buffer[i + 1]]_vars

C10_Witness ==
    /\ last.op = "get_ctrl_signal"
    /\ last.ret = "signal"
    /\ Len(out_buffer) >= 1
    /\ out_buffer[1].out_time_ms <= last.t

\* C6: under "when idle" sampling with the driver loop, a scheduled sample
\* that was deferred is taken at the first later query at which the buffer
\* is empty or its head is due, and only once: a sample is put off schedule
\* only for a deferred sample, and putting it consumes the deferral and the
\* missed-sample flag.
C6_DeferredTakenOnce ==
    [][sampling = "when idle" =>
          /\ (/\ deferred
              /\ last'.op = "is_sampling_now"
              /\ (Len(out_buffer) = 0 \/ out_buffer[1].out_time_ms <= now'))
                 => (last'.ret = "True" /\ pc' \in {"if", "put"})
          /\ (pc' = "put" /\ now' % sample_period_ms # 0) => deferred'
          /\ pc = "put" =>
                 (~deferred' /\ needs_off_schedule_sample' = "False")]_vars

C6_Witness ==
    /\ sampling = "when idle"
    /\ pc = "get"
    /\ last.op = "put_state"
    /\ now % sample_period_ms # 0
    /\ deferred = FALSE

\* ------------------------------------------------------- ProcessingBlock
\* The number of process calls of one run.
MaxCalls == 2
\* Inputs of the transform are drawn from 0..MaxInput.
MaxInput == 1

Inputs == 0 .. MaxInput

\* What a caller may pass as the delay keyword: nothing, a Delay whose
\* compute() draws any duration, a ConstantDelay, or an object that is no
\* Delay (a number).
DelayKinds == {"Delay", "ConstantDelay"}
delay_kwargs == {"missing", "number"} \cup DelayKinds
save_history_kwargs == {"missing", "True", "False"}

\* line 47: kwargs.get("delay", None)
get_delay(delay_kw) == IF delay_kw = "missing" THEN "None" ELSE delay_kw

\* Variant of isinstance_Delay: the delay is optional.
is_None_or_Delay(delay) == delay = "None" \/ delay \in DelayKinds

\* Variant of isinstance_Delay: only a missing delay is refused.
is_not_None(delay) == delay # "None"

\* line 48: isinstance(self.delay, Delay)
isinstance_Delay(delay) == delay \in DelayKinds

\* line 50: kwargs.get("save_history", False)
get_save_history(save_history_kw) == save_history_kw = "True"

\* ProcessingBlock.__init__, lines 47-54; const is the duration a
\* ConstantDelay was built with.
block_init(delay_kw, const, save_history_kw) ==
    LET delay == get_delay(delay_kw) IN
    IF ~isinstance_Delay(delay)
    THEN [new_block EXCEPT !.status = "TypeError", !.delay = delay]
    ELSE [status |-> "constructed", delay |-> delay, const |-> const,
          save_history |-> get_save_history(save_history_kw),
          has_history |-> get_save_history(save_history_kw),
          t |-> <<>>, out_t |-> <<>>, values |-> <<>>]

\* Delay.compute(): the durations one call may return.
delay_compute(blk) ==
    IF blk.delay = "ConstantDelay" THEN {blk.const} ELSE Delays

\* MyLoopComponent._process: input + measurement_time.
transform(input, measurement_time) == input + measurement_time

\* Variant of block_out_time: the delay is not added.
out_time_without_delay(delay, in_time_ms, d) == in_time_ms

\* lines 74-77: the output time of process.
block_out_time(delay, in_time_ms, d) ==
    IF delay # "None" THEN in_time_ms + d ELSE in_time_ms

\* Variant of append_value: an output that is falsy is not recorded.
append_truthy_value(values, out) ==
    IF out = 0 THEN values ELSE Append(values, out)

\* line 81: self.values.append(out)
append_value(values, out) == Append(values, out)

\* lines 78-81: the history after a call.
block_after_process(blk, in_time_ms, out_time_ms, out) ==
    IF blk.save_history
    THEN [blk EXCEPT !.t = Append(blk.t, in_time_ms),
                     !.out_t = Append(blk.out_t, out_time_ms),
                     !.values = append_value(blk.values, out)]
    ELSE blk

\* ProcessingBlock.process(input, in_time_ms, measurement_time=in_time_ms)
\* with d the duration delay.compute() returns; the call and what it
\* returned is logged in calls.
block_process(input, in_time_ms, d) ==
    LET out == transform(input, in_time_ms)
        out_time_ms == block_out_time(block.delay, in_time_ms, d)
    IN  /\ block' = block_after_process(block, in_time_ms, out_time_ms, out)
        /\ calls' = Append(calls, [input |-> input, in_time_ms |-> in_time_ms,
                                   d |-> d, out |-> out,
                                   out_time_ms |-> out_time_ms])
        /\ last' = [op |-> "process", t |-> in_time_ms, d |-> d,
                    ret |-> "tuple", out |-> out]

scheduler == <<out_buffer, config, needs_off_schedule_sample, nput,
               delivered, driver, ctor>>

BlockInit ==
    /\ block.status = "new"
    /\ \E delay_kw \in delay_kwargs, const \in Delays,
          save_history_kw \in save_history_kwargs :
          /\ delay_kw # "ConstantDelay" => const = 0
          /\ block' = block_init(delay_kw, const, save_history_kw)
    /\ last' = [op |-> "ProcessingBlock", t |-> 0, d |-> 0,
                ret |-> block'.status, out |-> 0]
    /\ UNCHANGED <<scheduler, calls, devices>>

BlockProcess ==
    /\ block.status = "constructed"
    /\ Len(calls) < MaxCalls
    /\ \E input \in Inputs, in_time_ms \in Times, d \in delay_compute(block) :
          block_process(input, in_time_ms, d)
    /\ UNCHANGED <<scheduler, devices>>

NextBlock == BlockInit \/ BlockProcess

\* A block beside a scheduler that is not called.
InitBlock ==
    /\ Init
    /\ sample_period_ms = 2
    /\ sampling = "fixed"
    /\ processing = "parallel"

SpecBlock == InitBlock /\ [][NextBlock]_vars

\* C16: for a block with a delay attached, process(input, in_time) returns
\* (transform(input), in_time + d) with d the duration drawn for the call;
\* with a constant delay c the output time is in_time + c on every call.
C16_ProcessAddsDelay ==
    \A i \in DOMAIN calls :
        /\ calls[i].out = calls[i].input + calls[i].in_time_ms
        /\ calls[i].out_time_ms = calls[i].in_time_ms + calls[i].d
        /\ block.delay = "ConstantDelay" =>
               calls[i].out_time_ms = calls[i].in_time_ms + block.const

C16_Witness ==
    /\ block.delay = "ConstantDelay"
    /\ block.const > 0
    /\ Len(calls) = 2
    /\ calls[2].in_time_ms < calls[1].in_time_ms

\* C17 as stated: a block may have no delay attached, and is then a
\* zero-latency passthrough.
C17_Original ==
    (block.status # "new" /\ block.delay = "None") =>
        /\ block.status = "constructed"
        /\ \A i \in DOMAIN calls : calls[i].out_time_ms = calls[i].in_time_ms

\* C17 as amended: a block cannot be constructed without a delay (the
\* construction raises TypeError), so every constructed block has a Delay;
\* process returns output time in_time exactly when the drawn delay is 0.
C17_NoBlockWithoutDelay ==
    /\ block.status = "constructed" => block.delay \in DelayKinds
    /\ (block.status # "new" /\ block.delay = "None") =>
           (block.status = "TypeError" /\ calls = <<>>)
    /\ \A i \in DOMAIN calls :
           calls[i].out_time_ms = calls[i].in_time_ms <=> calls[i].d = 0

C17_Witness ==
    /\ block.delay = "ConstantDelay"
    /\ block.const = 0
    /\ Len(calls) > 0
    /\ calls[1].out_time_ms = calls[1].in_time_ms

\* C18: constructing a block whose delay argument is missing or is not a
\* Delay fails with TypeError; no such block is constructed or processed.
C18_InvalidDelayRaises ==
    /\ (block.status # "new" /\ block.delay \notin DelayKinds) =>
           (block.status = "TypeError" /\ calls = <<>>)
    /\ last.op = "process" => block.delay \in DelayKinds

C18_Witness ==
    /\ block.status = "TypeError"
    /\ block.delay = "number"

\* C19: for a block with history recording enabled the three history
\* sequences exist and are empty after construction, always have equal
\* length, and after n process calls have length n, their i-th entries the
\* in_time, out_time and output of the i-th call (a falsy output included).
C19_HistoryMatchesCalls ==
    (block.status = "constructed" /\ block.save_history) =>
        /\ block.has_history
        /\ Len(block.t) = Len(calls)
        /\ Len(block.out_t) = Len(calls)
        /\ Len(block.values) = Len(calls)
        /\ \A i \in DOMAIN calls :
               /\ block.t[i] = calls[i].in_time_ms
               /\ block.out_t[i] = calls[i].out_time_ms
               /\ block.values[i] = calls[i].out

C19_Witness ==
    /\ block.status = "constructed"
    /\ block.save_history
    /\ Len(calls) = 2
    /\ calls[1].out = 0
    /\ calls[2].out # 0

\* ------------------------------------------- LatencyIOProcessor.__init__
\* What a caller may pass to __init__.
period_args == {-2, 0, 2}
sampling_kwargs == {"missing", "fixed", "when idle", "wait for computation"}
processing_kwargs == {"missing", "serial", "parallel", "pipelined"}

\* lines 163 and 166: kwargs.get(key, default)
kwargs_get(kw, default) == IF kw = "missing" THEN default ELSE kw

\* Variant of sampling_is_valid: any sampling scheme is accepted.
sampling_is_any(s) == TRUE

\* line 164: the sampling schemes.
sampling_is_valid(s) == s \in {"fixed", "when idle"}

\* line 167: the processing schemes.
processing_is_valid(p) == p \in {"serial", "parallel"}

\* A scheduler object before __init__ has run: no attribute is assigned.
InitNew ==
    /\ status = "new"
    /\ kwargs = [sample_period_ms |-> 0, sampling |-> "missing",
                 processing |-> "missing"]
    /\ out_buffer = <<>>
    /\ sample_period_ms = 0
    /\ sampling = "unset"
    /\ processing = "unset"
    /\ needs_off_schedule_sample = "unset"
    /\ last = [op |-> "new", t |-> 0, d |-> 0, ret |-> "None", out |-> 0]
    /\ nput = 0
    /\ delivered = <<>>
    /\ pc = "query"
    /\ now = -1
    /\ deferred = FALSE
    /\ block = new_block
    /\ calls = <<>>
    /\ InitDevices

\* __init__, lines 161-168: the attributes are assigned in order, and an
\* invalid scheme raises ValueError before the later ones are assigned.
init(period, sampling_kw, processing_kw) ==
    LET s == kwargs_get(sampling_kw, "fixed")
        p == kwargs_get(processing_kw, "parallel")
    IN  /\ out_buffer' = <<>>
        /\ sample_period_ms' = period
        /\ sampling' = s
        /\ processing' = IF sampling_is_valid(s) THEN p ELSE processing
        /\ status' = IF sampling_is_valid(s) /\ processing_is_valid(p)
                     THEN "constructed" ELSE "ValueError"
        /\ kwargs' = [sample_period_ms |-> period, sampling |-> sampling_kw,
                      processing |-> processing_kw]
        /\ last' = [op |-> "__init__", t |-> 0, d |-> 0,
                    ret |-> IF status' = "constructed" THEN "None"
                            ELSE "ValueError",
                    out |-> 0]
        /\ UNCHANGED <<needs_off_schedule_sample, nput, delivered>>

Construct ==
    /\ status = "new"
    /\ \E period \in period_args, sampling_kw \in sampling_kwargs,
          processing_kw \in processing_kwargs :
          init(period, sampling_kw, processing_kw)
    /\ UNCHANGED <<driver, blocks, devices>>

ConstructedIsSamplingNow ==
    /\ status = "constructed"
    /\ IsSamplingNow

NextConstruct == Construct \/ ConstructedIsSamplingNow

SpecConstruct == InitNew /\ [][NextConstruct]_vars

C15_NonPositivePeriodRaises ==
    /\ (status # "new" /\ kwargs.sample_period_ms <= 0) =>
           status = "ValueError"
    /\ last.op = "is_sampling_now" => sample_period_ms > 0

\* ------------------------------------------- put_state, process raising
\* Variant of put_state_raises: the flag is cleared before process runs.
put_state_raises_after_flag(sample_time_ms) ==
    /\ last' = [op |-> "put_state", t |-> sample_time_ms, d |-> 0,
                ret |-> "raised", out |-> 0]
    /\ needs_off_schedule_sample' = "False"
    /\ UNCHANGED <<config, out_buffer, nput, delivered>>

\* put_state, line 171, when self.process raises: the exception leaves
\* put_state before line 172.
put_state_raises(sample_time_ms) ==
    /\ last' = [op |-> "put_state", t |-> sample_time_ms, d |-> 0,
                ret |-> "raised", out |-> 0]
    /\ UNCHANGED <<config, out_buffer, needs_off_schedule_sample, nput,
                   delivered>>

\* The driver loop's put_state raising: the exception is not caught, it
\* reaches the loop's caller and ends the loop.
DriverPutStateRaises ==
    /\ pc = "put"
    /\ put_state_raises(now)
    /\ pc' = "raised"
    /\ UNCHANGED <<now, deferred, ctor, blocks, devices>>

NextRaises == NextDriver \/ DriverPutStateRaises

SpecRaises == Init /\ [][NextRaises]_vars

\* C13: if the user computation fails, put_state raises and the buffer and
\* the missed-sample flag are as before the call; otherwise exactly one
\* complete (output, output time) entry is appended at the tail.
C13_PutStateAtomic ==
    [][last'.op = "put_state" =>
          IF last'.ret = "raised"
          THEN /\ pc' = "raised"
               /\ out_buffer' = out_buffer
               /\ needs_off_schedule_sample' = needs_off_schedule_sample
          ELSE /\ Len(out_buffer') = Len(out_buffer) + 1
               /\ SubSeq(out_buffer', 1, Len(out_buffer)) = out_buffer
               /\ DOMAIN out_buffer'[Len(out_buffer')]
                      = {"out", "out_time_ms"}]_vars

C13_Witness ==
    /\ last.op = "put_state"
    /\ last.ret = "raised"
    /\ pc = "raised"
    /\ Len(out_buffer) = 1
    /\ needs_off_schedule_sample = "True"

\* ------------------------------- a driver that keeps asking for the signal
\* No output time exceeds Horizon: a sample is taken at MaxTime at the
\* latest, and each of the MaxPuts computations adds MaxDelay at most.
Horizon == MaxTime + MaxPuts * MaxDelay

\* The query time after now: the driver's clock advances one unit per
\* call.  Every time from Horizon on finds every buffered entry due, and
\* Horizon stands for all of them.
later_times(t) == IF t >= Horizon THEN {Horizon} ELSE {t + 1}

LivePutState ==
    /\ nput < MaxPuts
    /\ now \in Times
    /\ \E d \in Delays : put_state(now, d)
    /\ UNCHANGED <<driver, ctor, blocks, devices>>

LiveIsSamplingNow ==
    /\ now \in Times
    /\ is_sampling_now(now)
    /\ UNCHANGED <<driver, ctor, blocks, devices>>

LiveGetCtrlSignal ==
    /\ \E t \in later_times(now) :
          /\ now' = t
          /\ get_ctrl_signal(t)
    /\ UNCHANGED <<pc, deferred, ctor, blocks, devices>>

NextLive == LivePutState \/ LiveIsSamplingNow \/ LiveGetCtrlSignal

\* The driver keeps calling get_ctrl_signal, at query times that grow.
SpecLive == Init /\ [][NextLive]_vars /\ WF_vars(LiveGetCtrlSignal)

empty_dict == <<>>

\* lines 241-242: return ({}, sample_time_ms)
record_only_process(state_dict, sample_time_ms) ==
    [out |-> empty_dict, out_time_ms |-> sample_time_ms]

\* put_state (lines 170-177) of a RecordOnlyProcessor: self.process is
\* record_only_process.
record_only_put_state(sample_time_ms) ==
    LET r == record_only_process(nput + 1, sample_time_ms)
        t == effective_out_time(out_buffer, r.out_time_ms, sample_time_ms)
    IN  /\ out_buffer' = Append(out_buffer, [out |-> r.out, out_time_ms |-> t])
        /\ needs_off_schedule_sample' = flag_after_put_state
        /\ nput' = nput + 1
        /\ last' = [op |-> "put_state", t |-> sample_time_ms, d |-> 0,
                    ret |-> "None", out |-> 0]
        /\ UNCHANGED <<config, delivered>>

RecordOnlyPutState ==
    /\ nput < MaxPuts
    /\ \E s \in Times : record_only_put_state(s)
    /\ UNCHANGED <<driver, ctor, blocks, devices>>

NextRecordOnly == RecordOnlyPutState \/ GetCtrlSignal \/ IsSamplingNow

SpecRecordOnly == Init /\ [][NextRecordOnly]_vars

\* C20: on a RecordOnlyProcessor, put_state(state, t) on an empty buffer
\* appends the entry ({}, t), and a get_ctrl_signal(t') that follows it with
\* t' >= t, t' = t included, returns {} rather than None and empties the
\* buffer.
C20_RecordOnlyReturnsEmptyDict ==
    /\ [][(out_buffer = <<>> /\ last'.op = "put_state")
             => out_buffer' = <<[out |-> empty_dict,
                                 out_time_ms |-> last'.t]>>]_vars
    /\ [][(/\ last.op = "put_state"
           /\ Len(out_buffer) = 1
           /\ last'.op = "get_ctrl_signal"
           /\ last'.t >= last.t)
             => /\ last'.ret = "signal"
                /\ last'.out = empty_dict
                /\ out_buffer' = <<>>]_vars

C20_Witness ==
    /\ nput = 1
    /\ last.op = "get_ctrl_signal"
    /\ last.t = 0
    /\ last.ret = "signal"
    /\ last.out = empty_dict
    /\ out_buffer = <<>>

\* -------------------------------------------------------------------- reset
\* A scheduler whose process goes through one block that records its
\* history, as MyDelayCL's goes through self.component.
InitReset ==
    /\ out_buffer = <<>>
    /\ sample_period_ms \in Periods
    /\ sampling \in {"fixed", "when idle"}
    /\ processing \in {"parallel", "serial"}
    /\ needs_off_schedule_sample = "unset"
    /\ last = [op |-> "__init__", t |-> 0, d |-> 0, ret |-> "None", out |-> 0]
    /\ nput = 0
    /\ delivered = <<>>
    /\ pc = "query"
    /\ now = -1
    /\ deferred = FALSE
    /\ status = "constructed"
    /\ kwargs = [sample_period_ms |-> sample_period_ms,
                 sampling |-> sampling, processing |-> processing]
    /\ block = block_init("Delay", 0, "True")
    /\ calls = <<>>
    /\ InitDevices

\* put_state whose process calls the block's process (MyDelayCL, lines
\* 58-65) on the sample's number as input: the block records the call in
\* its history.
DriverPutStateThroughBlock ==
    /\ pc = "put"
    /\ \E d \in delay_compute(block) :
          /\ put_state(now, d)
          /\ block' = block_after_process(
                          block, now, block_out_time(block.delay, now, d),
                          transform(nput + 1, now))
    /\ pc' = "get"
    /\ deferred' = FALSE
    /\ now' = now
    /\ UNCHANGED <<ctor, calls, devices>>

\* Variant of reset_out_buffer: the buffer is left as it is.
reset_keeps_out_buffer(buf) == buf

\* reset(): the output buffer is cleared.
reset_out_buffer(buf) == <<>>

\* reset(): the missed-sample flag is cleared.
reset_flag == "False"

\* reset(): the block's history is cleared, its configuration kept.
reset_block(blk) == [blk EXCEPT !.t = <<>>, !.out_t = <<>>, !.values = <<>>]

reset ==
    /\ out_buffer' = reset_out_buffer(out_buffer)
    /\ needs_off_schedule_sample' = reset_flag
    /\ block' = reset_block(block)
    /\ last' = [op |-> "reset", t |-> 0, d |-> 0, ret |-> "None", out |-> 0]
    /\ UNCHANGED <<config, nput, delivered>>

\* reset may be called between any two calls of the loop.
Reset ==
    /\ reset
    /\ deferred' = FALSE
    /\ UNCHANGED <<pc, now, ctor, calls, devices>>

NextReset ==
    \/ DriverAssertSampling
    \/ DriverIfSampling
    \/ DriverPutStateThroughBlock
    \/ DriverGetCtrlSignal
    \/ Reset

SpecReset == InitReset /\ [][NextReset]_vars

\* C11: reset can be called in any reachable state, also while entries are
\* buffered; after it the buffer is empty, the missed-sample flag is clear
\* and the block's history is empty, while period, policies and delay are
\* as before; and from then on get_ctrl_signal returns None until a
\* put_state: an empty buffer stays empty under every call but put_state,
\* and get_ctrl_signal on it returns None.
C11_ResetClears ==
    /\ [][ENABLED Reset]_vars
    /\ [][last'.op = "reset"
             => /\ out_buffer' = <<>>
                /\ needs_off_schedule_sample' = "False"
                /\ block'.t = <<>>
                /\ block'.out_t = <<>>
                /\ block'.values = <<>>
                /\ config' = config
                /\ block'.delay = block.delay
                /\ block'.const = block.const
                /\ block'.save_history = block.save_history]_vars
    /\ [][(out_buffer = <<>> /\ last'.op # "put_state")
             => out_buffer' = <<>>]_vars
    /\ [][(out_buffer = <<>> /\ last'.op = "get_ctrl_signal")
             => last'.ret = "None"]_vars

C11_Witness ==
    /\ last.op = "get_ctrl_signal"
    /\ last.ret = "None"
    /\ out_buffer = <<>>
    /\ block.t = <<>>
    /\ needs_off_schedule_sample = "False"
    /\ nput > Len(delivered)
    /\ nput = MaxPuts
    /\ now = MaxTime

\* ------------------------------------------- the scenario of the tests
\* test_DelayControlLoop_fixed_serial and its siblings, in units of
\* 0.001 ms: no query time of the scenario is within the tolerance of a
\* schedule point without being on it.
scenario_period == 1000

scenario_delay == 1199

scenario_t == <<0, 1000, 1200, 1300, 2000, 2300, 2400>>

\* The inputs of the samples; the tests take them in this order.
scenario_inputs == <<42000, 66000, 1847000>>

InitScenario ==
    /\ out_buffer = <<>>
    /\ sample_period_ms = scenario_period
    /\ sampling \in {"fixed", "when idle"}
    /\ processing \in {"parallel", "serial"}
    /\ needs_off_schedule_sample = "unset"
    /\ last = [op |-> "__init__", t |-> 0, d |-> 0, ret |-> "None", out |-> 0]
    /\ nput = 0
    /\ delivered = <<>>
    /\ pc = "query"
    /\ now = -1
    /\ deferred = FALSE
    /\ status = "constructed"
    /\ kwargs = [sample_period_ms |-> sample_period_ms,
                 sampling |-> sampling, processing |-> processing]
    /\ block = block_init("ConstantDelay", scenario_delay, "missing")
    /\ calls = <<>>
    /\ InitDevices

\* for i in range(len(t)): assert myDCL.is_sampling_now(t[i]) == ...
ScenarioAssertSampling ==
    /\ pc = "query"
    /\ \E i \in DOMAIN scenario_t :
          /\ IF i = 1 THEN now = -1 ELSE now = scenario_t[i - 1]
          /\ now' = scenario_t[i]
          /\ is_sampling_now(scenario_t[i])
    /\ pc' = after_sampling_query(last'.ret, "if", "if")
    /\ deferred' = (deferred \/ sees_deferral(last'.ret, now'))
    /\ UNCHANGED <<ctor, blocks, devices>>

\* myDCL.put_state({"in": input}, t[i]): compute_ctrl_signal passes the
\* input to the component's process, and the output put in the buffer is
\* the one calls records under the same number.
ScenarioPutState ==
    /\ pc = "put"
    /\ \E input \in {scenario_inputs[k] : k \in DOMAIN scenario_inputs},
          d \in delay_compute(block) :
          LET out == transform(input, now)
              out_time_ms == block_out_time(block.delay, now, d)
          IN  /\ put_state(now, d)
              /\ block' = block_after_process(block, now, out_time_ms, out)
              /\ calls' = Append(calls, [input |-> input, in_time_ms |-> now,
                                         d |-> d, out |-> out,
                                         out_time_ms |-> out_time_ms])
    /\ pc' = "get"
    /\ deferred' = FALSE
    /\ now' = now
    /\ UNCHANGED <<ctor, devices>>

NextScenario ==
    \/ ScenarioAssertSampling
    \/ DriverIfSampling
    \/ ScenarioPutState
    \/ DriverGetCtrlSignal

SpecScenario == InitScenario /\ [][NextScenario]_vars

\* C21: serial processing, fixed sampling, period 1, constant delay 1.199
\* and inputs 42, 66, 1847: is_sampling_now is true at t = 0, 1, 2 and
\* false at 1.2, 1.3, 2.3, 2.4; get_ctrl_signal returns 42 at 1.2, 67 at
\* 2.4 and None at every other query, at 2.3 in particular.
C21_FixedSerialScenario ==
    (/\ sampling = "fixed"
     /\ processing = "serial"
     /\ \A k \in DOMAIN calls : calls[k].input = scenario_inputs[k])
    => /\ last.op = "is_sampling_now"
          => last.ret = IF last.t \in {0, 1000, 2000} THEN "True" ELSE "False"
       /\ (last.op = "get_ctrl_signal" /\ last.t = 1200)
          => (last.ret = "signal" /\ calls[last.out].out = 42000)
       /\ (last.op = "get_ctrl_signal" /\ last.t = 2400)
          => (last.ret = "signal" /\ calls[last.out].out = 67000)
       /\ (last.op = "get_ctrl_signal" /\ last.t \notin {1200, 2400})
          => last.ret = "None"
       /\ pc # "raised"

C21_Witness ==
    /\ sampling = "fixed"
    /\ processing = "serial"
    /\ \A k \in DOMAIN calls : calls[k].input = scenario_inputs[k]
    /\ Len(calls) = 3
    /\ last.op = "get_ctrl_signal"
    /\ last.t = 2400
    /\ last.ret = "signal"
    /\ calls[last.out].out = 67000
    /\ delivered = <<1, 2>>

\* C22: under parallel processing, when an entry behind the head has an
\* earlier output time than the head, get_ctrl_signal(t) with that output
\* time <= t < the head's output time returns None and leaves the buffer as
\* it is; an entry that is released was the head.
C22_OnlyHeadReleased ==
    /\ [][(/\ last'.op = "get_ctrl_signal"
           /\ processing = "parallel"
           /\ Len(out_buffer) >= 2
           /\ last'.t < out_buffer[1].out_time_ms
           /\ \E k \in 2 .. Len(out_buffer) :
                 out_buffer[k].out_time_ms <= last'.t)
             => /\ last'.ret = "None"
                /\ out_buffer' = out_buffer]_vars
    /\ [][(last'.op = "get_ctrl_signal" /\ last'.ret = "signal")
             => /\ last'.out = out_buffer[1].out
                /\ out_buffer' = Tail(out_buffer)]_vars

C22_Witness ==
    /\ processing = "parallel"
    /\ last.op = "get_ctrl_signal"
    /\ last.ret = "None"
    /\ Len(out_buffer) >= 2
    /\ out_buffer[2].out_time_ms <= last.t
    /\ last.t < out_buffer[1].out_time_ms

\* C23: every put_state, under either sampling policy and either processing
\* policy, appends exactly one entry at the tail: the length grows by one,
\* the entries already buffered keep their places, nothing is re-sorted by
\* output time; and the missed-sample flag is clear afterwards.
C23_PutStateAppendsAtTail ==
    [][nput' = nput + 1
          => /\ Len(out_buffer') = Len(out_buffer) + 1
             /\ SubSeq(out_buffer', 1, Len(out_buffer)) = out_buffer
             /\ out_buffer'[Len(out_buffer')].out = nput'
             /\ needs_off_schedule_sample' = "False"]_vars

C23_Witness ==
    /\ last.op = "put_state"
    /\ Len(out_buffer) >= 2
    /\ out_buffer[Len(out_buffer)].out = nput
    /\ out_buffer[Len(out_buffer)].out_time_ms < out_buffer[1].out_time_ms
    /\ needs_off_schedule_sample = "False"

\* ------------------------------------- the driver loop with a recording block
\* The loop of _test_DelayControlLoop on a scheduler whose block records
\* its history: under parallel processing block.out_t[k] is the output time
\* of the k-th sample.
NextHistory ==
    \/ DriverAssertSampling
    \/ DriverIfSampling
    \/ DriverPutStateThroughBlock
    \/ DriverGetCtrlSignal

SpecHistory == InitReset /\ [][NextHistory]_vars

\* C24 as stated: under parallel processing two outputs are released in an
\* order other than that of their samples if and only if the later sample's
\* output time is earlier than the earlier sample's.
C24_Original ==
    processing = "parallel" =>
        \A i, j \in DOMAIN delivered :
            delivered[i] < delivered[j] =>
                ((j < i) <=> (block.out_t[delivered[j]]
                                 < block.out_t[delivered[i]]))

\* C24, amended: under parallel processing outputs are released in the order
\* of their samples, also when a later sample's output time is earlier than
\* that of an earlier sample still pending.
C24_ReleaseOrderIsSampleOrder ==
    processing = "parallel" =>
        \A i \in DOMAIN delivered : delivered[i] = i

C24_Witness ==
    /\ processing = "parallel"
    /\ delivered = <<1, 2>>
    /\ block.out_t[2] < block.out_t[1]

C26_SerialNotBeforeSample ==
    (processing = "serial" /\ last.op = "put_state") =>
        out_buffer[Len(out_buffer)].out_time_ms >= last.t + last.d

\* C27: is_sampling_now called twice in a row with the same query time, as
\* the driver loop does, gives the same answer both times and leaves the
\* missed-sample flag and the buffer as the first call left them; under
\* either policy is_sampling_now never modifies the buffer.
C27_IsSamplingNowIdempotent ==
    /\ [][(/\ last.op = "is_sampling_now"
           /\ last'.op = "is_sampling_now"
           /\ last'.t = last.t)
             => /\ last'.ret = last.ret
                /\ needs_off_schedule_sample' = needs_off_schedule_sample
                /\ out_buffer' = out_buffer]_vars
    /\ [][last'.op = "is_sampling_now" => out_buffer' = out_buffer]_vars

C27_Witness ==
    /\ sampling = "when idle"
    /\ pc = "put"
    /\ last.op = "is_sampling_now"
    /\ last.ret = "True"
    /\ now % sample_period_ms # 0
    /\ needs_off_schedule_sample = "True"
    /\ Len(out_buffer) = 1

\* C28: in every reachable state the number of put_state calls equals the
\* number of buffered entries plus the number of outputs get_ctrl_signal
\* returned; every output put is either buffered or returned, once.
C28_Conservation ==
    /\ nput = Len(out_buffer) + Len(delivered)
    /\ \A id \in 1 .. nput :
           Cardinality({k \in DOMAIN out_buffer : out_buffer[k].out = id})
             + Cardinality({i \in DOMAIN delivered : delivered[i] = id}) = 1

C28_Witness ==
    /\ nput = MaxPuts
    /\ Len(delivered) >= 1
    /\ Len(out_buffer) >= 1
    /\ last.op = "get_ctrl_signal"
    /\ last.ret = "signal"

\* ------------------------------------------------------- LightOpsinRegistry
\* dict.get(key, set())
dict_get(dict, key) == IF key \in DOMAIN dict THEN dict[key] ELSE {}

\* dict.get(key, set()).add(item): the set that is in the dict under key
\* gets the item; with no such key the item goes to the fresh default set,
\* which the dict does not hold.
dict_get_add(dict, key, item) ==
    IF key \in DOMAIN dict
    THEN [dict EXCEPT ![key] = @ \cup {item}]
    ELSE dict

\* connect_light_to_opsin_for_ng (lines 32-56) for each of the keys
\* (light, opsin, ng): a synapse is added to the network (line 55) and
\* stored under the key (line 56).
connect_light_to_opsin_for_ng(reg, keys) ==
    [reg EXCEPT !.network = @ (+) SetToBag(keys),
                !.light_prop_syns = @ \cup keys]

\* lines 58-63
register_opsin(opsin, ng) ==
    LET reg == [registry EXCEPT
                   !.opsins_for_ng = dict_get_add(@, ng, opsin)]
        prev_injct_lights == dict_get(reg.lights_for_ng, ng)
    IN  registry' = connect_light_to_opsin_for_ng(
                        reg, {<<light, opsin, ng>> :
                                 light \in prev_injct_lights})

\* lines 65-70
register_light(light, ng) ==
    LET reg == [registry EXCEPT
                   !.lights_for_ng = dict_get_add(@, ng, light)]
        prev_injct_opsins == dict_get(reg.opsins_for_ng, ng)
    IN  registry' = connect_light_to_opsin_for_ng(
                        reg, {<<light, opsin, ng>> :
                                 opsin \in prev_injct_opsins})

RegisterOpsin ==
    /\ \E opsin \in Opsins, ng \in NeuronGroups :
          /\ <<"opsin", opsin, ng>> \notin registered
          /\ register_opsin(opsin, ng)
          /\ registered' = registered \cup {<<"opsin", opsin, ng>>}
    /\ last' = [op |-> "register_opsin", t |-> 0, d |-> 0, ret |-> "None",
                out |-> 0]
    /\ UNCHANGED <<scheduler, blocks, electrodes, added>>

RegisterLight ==
    /\ \E light \in Lights, ng \in NeuronGroups :
          /\ <<"light", light, ng>> \notin registered
          /\ register_light(light, ng)
          /\ registered' = registered \cup {<<"light", light, ng>>}
    /\ last' = [op |-> "register_light", t |-> 0, d |-> 0, ret |-> "None",
                out |-> 0]
    /\ UNCHANGED <<scheduler, blocks, electrodes, added>>

NextRegistry == RegisterOpsin \/ RegisterLight

\* A registry beside a scheduler that is not called.
SpecRegistry == InitBlock /\ [][NextRegistry]_vars

\* C29: once a light l and an opsin o have both been registered for a
\* neuron group ng, in either order, the pair has been connected exactly
\* once: (l, o, ng) is a key of light_prop_syns and one synapse was added
\* for it.
C29_RegisteredPairConnected ==
    \A light \in Lights, opsin \in Opsins, ng \in NeuronGroups :
        (/\ <<"light", light, ng>> \in registered
         /\ <<"opsin", opsin, ng>> \in registered)
        => /\ <<light, opsin, ng>> \in registry.light_prop_syns
           /\ CopiesIn(<<light, opsin, ng>>, registry.network) = 1

\* ------------------------------------------------------------ ElectrodeGroup
\* The number of add_signal calls of one run that append.
MaxAdds == 3

\* self.signals of an ElectrodeGroup: no instance attribute is ever assigned
\* (lines 48-64), so the name resolves to the class attribute of line 45.
signals_of(eg) == electrodes.signals

\* Signal.init_for_electrode_group, line 27: the signal is bound to another
\* group.
bound_elsewhere(signal, eg) ==
    /\ electrodes.electrode_group[signal] # "None"
    /\ electrodes.electrode_group[signal] # eg

\* ElectrodeGroup.add_signal, lines 62-64, with init_for_electrode_group,
\* lines 26-32: ValueError before anything is assigned, or the signal is
\* bound and appended to self.signals.
add_signal(eg, signal) ==
    IF bound_elsewhere(signal, eg)
    THEN /\ last' = [op |-> "add_signal", t |-> 0, d |-> 0,
                     ret |-> "ValueError", out |-> 0]
         /\ UNCHANGED <<electrodes, added>>
    ELSE /\ electrodes' =
                [electrodes EXCEPT !.electrode_group[signal] = eg,
                                   !.signals = Append(@, signal)]
         /\ added' = [added EXCEPT ![eg] = Append(@, signal)]
         /\ last' = [op |-> "add_signal", t |-> 0, d |-> 0, ret |-> "None",
                     out |-> 0]

AddSignal ==
    /\ Len(electrodes.signals) < MaxAdds
    /\ \E eg \in ElectrodeGroups, signal \in Signals : add_signal(eg, signal)
    /\ UNCHANGED <<scheduler, blocks, registry, registered>>

NextElectrodes == AddSignal

\* Electrode groups beside a scheduler that is not called.
SpecElectrodes == InitBlock /\ [][NextElectrodes]_vars

\* C30: each ElectrodeGroup holds exactly the signals added to it, so adding
\* a signal to one group leaves the list of every other group as it was; a
\* signal is in the list of the one group it is bound to, and an add_signal
\* refused with ValueError modifies no list.
C30_GroupHoldsItsSignals ==
    /\ \A eg \in ElectrodeGroups : signals_of(eg) = added[eg]
    /\ \A eg \in ElectrodeGroups :
           \A k \in DOMAIN added[eg] :
               electrodes.electrode_group[added[eg][k]] = eg

====
